---- MODULE Spec2Model ----
(***************************************************************************)
(* The configuration parser and loader (src/src/config.rs) and the native  *)
(* window/message wrappers (src/src/win.rs) of ripclip.                    *)
(*                                                                         *)
(* Text is a sequence of ASCII codes, so that lowercasing, trimming and    *)
(* splitting are computed character by character as the code does.  Every  *)
(* string constant below is preceded by the text it stands for.            *)
(***************************************************************************)
EXTENDS Integers, Sequences, FiniteSets, TLC

(***************************************************************************)
(* String literals of config.rs                                            *)
(***************************************************************************)
\* "max_stack_size"
S_max_stack_size ==
    <<109, 97, 120, 95, 115, 116, 97, 99, 107, 95, 115, 105, 122, 101>>

\* "show_tray_icon"
S_show_tray_icon ==
    <<115, 104, 111, 119, 95, 116, 114, 97, 121, 95, 105, 99, 111, 110>>

\* "prevent_duplicate_push"
S_prevent_duplicate_push ==
    <<112, 114, 101, 118, 101, 110, 116, 95, 100, 117, 112, 108, 105, 99, 97, 116, 101,
    95, 112, 117, 115, 104>>

\* "pop_keybinding"
S_pop_keybinding ==
    <<112, 111, 112, 95, 107, 101, 121, 98, 105, 110, 100, 105, 110, 103>>

\* "clear_keybinding"
S_clear_keybinding ==
    <<99, 108, 101, 97, 114, 95, 107, 101, 121, 98, 105, 110, 100, 105, 110, 103>>

\* "swap_keybinding"
S_swap_keybinding ==
    <<115, 119, 97, 112, 95, 107, 101, 121, 98, 105, 110, 100, 105, 110, 103>>

\* "none"
S_none ==
    <<110, 111, 110, 101>>

\* "true"
S_true ==
    <<116, 114, 117, 101>>

\* "false"
S_false ==
    <<102, 97, 108, 115, 101>>

\* "c"
T_c ==
    <<99>>

\* "v"
T_v ==
    <<118>>

\* "shift"
T_shift ==
    <<115, 104, 105, 102, 116>>

\* "ctrl"
T_ctrl ==
    <<99, 116, 114, 108>>

\* "control"
T_control ==
    <<99, 111, 110, 116, 114, 111, 108>>

\* "alt"
T_alt ==
    <<97, 108, 116>>

(***************************************************************************)
(* Input texts of the model (DEFAULT_CONFIG is the program's)              *)
(***************************************************************************)
\* "max_stack_size = 100\nshow_tray_icon = true\npop_keybinding = Control + Shift + C\nswap_keybinding = None\nclear_keybinding = None\nprevent_duplicate_push = false\n"
DEFAULT_CONFIG ==
    <<109, 97, 120, 95, 115, 116, 97, 99, 107, 95, 115, 105, 122, 101, 32, 61, 32, 49,
    48, 48, 10, 115, 104, 111, 119, 95, 116, 114, 97, 121, 95, 105, 99, 111, 110, 32,
    61, 32, 116, 114, 117, 101, 10, 112, 111, 112, 95, 107, 101, 121, 98, 105, 110, 100,
    105, 110, 103, 32, 61, 32, 67, 111, 110, 116, 114, 111, 108, 32, 43, 32, 83, 104,
    105, 102, 116, 32, 43, 32, 67, 10, 115, 119, 97, 112, 95, 107, 101, 121, 98, 105,
    110, 100, 105, 110, 103, 32, 61, 32, 78, 111, 110, 101, 10, 99, 108, 101, 97, 114,
    95, 107, 101, 121, 98, 105, 110, 100, 105, 110, 103, 32, 61, 32, 78, 111, 110, 101,
    10, 112, 114, 101, 118, 101, 110, 116, 95, 100, 117, 112, 108, 105, 99, 97, 116,
    101, 95, 112, 117, 115, 104, 32, 61, 32, 102, 97, 108, 115, 101, 10>>

\* ""
L_empty ==
    <<>>

\* "  \t"
L_blank ==
    <<32, 32, 9>>

\* "max_stack_size = 100"
L_stack_100 ==
    <<109, 97, 120, 95, 115, 116, 97, 99, 107, 95, 115, 105, 122, 101, 32, 61, 32, 49,
    48, 48>>

\* "max_STACK_size = nonE"
L_stack_none_mixed ==
    <<109, 97, 120, 95, 83, 84, 65, 67, 75, 95, 115, 105, 122, 101, 32, 61, 32, 110,
    111, 110, 69>>

\* "max_stack_size = abc"
L_stack_abc ==
    <<109, 97, 120, 95, 115, 116, 97, 99, 107, 95, 115, 105, 122, 101, 32, 61, 32, 97,
    98, 99>>

\* "   max_stack_size=7"
L_stack_7 ==
    <<32, 32, 32, 109, 97, 120, 95, 115, 116, 97, 99, 107, 95, 115, 105, 122, 101, 61,
    55>>

\* "show_tray_icon = false"
L_tray_false ==
    <<115, 104, 111, 119, 95, 116, 114, 97, 121, 95, 105, 99, 111, 110, 32, 61, 32, 102,
    97, 108, 115, 101>>

\* "show_tray_icon = yes"
L_tray_yes ==
    <<115, 104, 111, 119, 95, 116, 114, 97, 121, 95, 105, 99, 111, 110, 32, 61, 32, 121,
    101, 115>>

\* "prevent_duplicate_push = TRUE"
L_dup_true ==
    <<112, 114, 101, 118, 101, 110, 116, 95, 100, 117, 112, 108, 105, 99, 97, 116, 101,
    95, 112, 117, 115, 104, 32, 61, 32, 84, 82, 85, 69>>

\* "clear_keybinding = CTRL + shift + c"
L_clear_ctrl_shift_c ==
    <<99, 108, 101, 97, 114, 95, 107, 101, 121, 98, 105, 110, 100, 105, 110, 103, 32,
    61, 32, 67, 84, 82, 76, 32, 43, 32, 115, 104, 105, 102, 116, 32, 43, 32, 99>>

\* "pop_keybinding = none"
L_pop_none ==
    <<112, 111, 112, 95, 107, 101, 121, 98, 105, 110, 100, 105, 110, 103, 32, 61, 32,
    110, 111, 110, 101>>

\* "Pop_Keybinding = alt+v"
L_pop_alt_v ==
    <<80, 111, 112, 95, 75, 101, 121, 98, 105, 110, 100, 105, 110, 103, 32, 61, 32, 97,
    108, 116, 43, 118>>

\* "swap_keybinding = shift + none"
L_swap_shift_none ==
    <<115, 119, 97, 112, 95, 107, 101, 121, 98, 105, 110, 100, 105, 110, 103, 32, 61,
    32, 115, 104, 105, 102, 116, 32, 43, 32, 110, 111, 110, 101>>

\* "Foo = bar"
L_foo_bar ==
    <<70, 111, 111, 32, 61, 32, 98, 97, 114>>

\* "foo"
L_foo ==
    <<102, 111, 111>>

\* "a = b = c"
X_two_eq ==
    <<97, 32, 61, 32, 98, 32, 61, 32, 99>>

\* "show_tray_icon == true"
X_double_eq ==
    <<115, 104, 111, 119, 95, 116, 114, 97, 121, 95, 105, 99, 111, 110, 32, 61, 61, 32,
    116, 114, 117, 101>>

\* "= 5"
X_no_name ==
    <<61, 32, 53>>

\* "max_stack_size ="
X_stack_empty ==
    <<109, 97, 120, 95, 115, 116, 97, 99, 107, 95, 115, 105, 122, 101, 32, 61>>

\* "max_stack_size = 18446744073709551615"
X_stack_max ==
    <<109, 97, 120, 95, 115, 116, 97, 99, 107, 95, 115, 105, 122, 101, 32, 61, 32, 49,
    56, 52, 52, 54, 55, 52, 52, 48, 55, 51, 55, 48, 57, 53, 53, 49, 54, 49, 53>>

\* "max_stack_size = 18446744073709551616"
X_stack_over ==
    <<109, 97, 120, 95, 115, 116, 97, 99, 107, 95, 115, 105, 122, 101, 32, 61, 32, 49,
    56, 52, 52, 54, 55, 52, 52, 48, 55, 51, 55, 48, 57, 53, 53, 49, 54, 49, 54>>

\* "max_stack_size = 184467440737095516160x"
X_stack_over_junk ==
    <<109, 97, 120, 95, 115, 116, 97, 99, 107, 95, 115, 105, 122, 101, 32, 61, 32, 49,
    56, 52, 52, 54, 55, 52, 52, 48, 55, 51, 55, 48, 57, 53, 53, 49, 54, 49, 54, 48,
    120>>

\* "max_stack_size = +5"
X_stack_plus ==
    <<109, 97, 120, 95, 115, 116, 97, 99, 107, 95, 115, 105, 122, 101, 32, 61, 32, 43,
    53>>

\* "max_stack_size = -1"
X_stack_minus ==
    <<109, 97, 120, 95, 115, 116, 97, 99, 107, 95, 115, 105, 122, 101, 32, 61, 32, 45,
    49>>

\* "max_stack_size = 007"
X_stack_zeros ==
    <<109, 97, 120, 95, 115, 116, 97, 99, 107, 95, 115, 105, 122, 101, 32, 61, 32, 48,
    48, 55>>

\* "MAX_STACK_SIZE = None"
X_stack_None ==
    <<77, 65, 88, 95, 83, 84, 65, 67, 75, 95, 83, 73, 90, 69, 32, 61, 32, 78, 111, 110,
    101>>

\* "\tshow_tray_icon\t=\tTrue "
X_tray_tabs ==
    <<9, 115, 104, 111, 119, 95, 116, 114, 97, 121, 95, 105, 99, 111, 110, 9, 61, 9, 84,
    114, 117, 101, 32>>

\* "show_tray_icon = 1"
X_tray_one ==
    <<115, 104, 111, 119, 95, 116, 114, 97, 121, 95, 105, 99, 111, 110, 32, 61, 32, 49>>

\* "show_tray_icon ="
X_tray_empty ==
    <<115, 104, 111, 119, 95, 116, 114, 97, 121, 95, 105, 99, 111, 110, 32, 61>>

\* "prevent_duplicate_push = False"
X_dup_false ==
    <<112, 114, 101, 118, 101, 110, 116, 95, 100, 117, 112, 108, 105, 99, 97, 116, 101,
    95, 112, 117, 115, 104, 32, 61, 32, 70, 97, 108, 115, 101>>

\* "prevent_duplicate_push = none"
X_dup_none ==
    <<112, 114, 101, 118, 101, 110, 116, 95, 100, 117, 112, 108, 105, 99, 97, 116, 101,
    95, 112, 117, 115, 104, 32, 61, 32, 110, 111, 110, 101>>

\* "max stack size = 3"
X_name_spaces ==
    <<109, 97, 120, 32, 115, 116, 97, 99, 107, 32, 115, 105, 122, 101, 32, 61, 32, 51>>

\* "swap_keybinding ="
X_swap_empty ==
    <<115, 119, 97, 112, 95, 107, 101, 121, 98, 105, 110, 100, 105, 110, 103, 32, 61>>

\* "ctrl"
K_ctrl ==
    <<99, 116, 114, 108>>

\* " Shift "
K_Shift ==
    <<32, 83, 104, 105, 102, 116, 32>>

\* "ALT"
K_alt ==
    <<65, 76, 84>>

\* "none"
K_none ==
    <<110, 111, 110, 101>>

\* "c"
K_c ==
    <<99>>

\* "foo"
K_foo ==
    <<102, 111, 111>>

\* ""
K_empty ==
    <<>>

\* the input of test::ignores_case:
\* "\n         max_STACK_size = nonE\n         clear_keybinding = CTRL + shift + c\n      "
TEST_IGNORES_CASE ==
    <<10, 32, 32, 32, 32, 32, 32, 32, 32, 32, 109, 97, 120, 95, 83, 84, 65, 67, 75, 95,
    115, 105, 122, 101, 32, 61, 32, 110, 111, 110, 69, 10, 32, 32, 32, 32, 32, 32, 32,
    32, 32, 99, 108, 101, 97, 114, 95, 107, 101, 121, 98, 105, 110, 100, 105, 110, 103,
    32, 61, 32, 67, 84, 82, 76, 32, 43, 32, 115, 104, 105, 102, 116, 32, 43, 32, 99, 10,
    32, 32, 32, 32, 32, 32>>

\* the input of test::ignores_blank_lines:
\* "\n\n\n\n      max_stack_size = 100\n\n\n\n\n      "
TEST_IGNORES_BLANK_LINES ==
    <<10, 10, 10, 10, 32, 32, 32, 32, 32, 32, 109, 97, 120, 95, 115, 116, 97, 99, 107,
    95, 115, 105, 122, 101, 32, 61, 32, 49, 48, 48, 10, 10, 10, 10, 10, 32, 32, 32, 32,
    32, 32>>

(***************************************************************************)
(* Bounds of the model                                                     *)
(***************************************************************************)
\* longest multi-line input drawn from CoreLines
MaxLines == 2
\* most '+'-separated tokens in a generated hotkey expression
MaxTokens == 3
\* most lines of the configuration file in a load_config run
MaxFileLines == 2
\* most messages retrieved from the queue in one run
MaxMessages == 2

(***************************************************************************)
(* str / BufRead operations used by the parser                             *)
(***************************************************************************)
SetMin(S) == CHOOSE x \in S : \A y \in S : x <= y

SetMax(S) == CHOOSE x \in S : \A y \in S : x >= y

\* u8::is_ascii_uppercase: 'A'..'Z'
IsAsciiUppercase(c) == c >= 65 /\ c <= 90

\* String::make_ascii_lowercase
make_ascii_lowercase(s) ==
    [k \in 1..Len(s) |-> IF IsAsciiUppercase(s[k]) THEN s[k] + 32 ELSE s[k]]

\* char::is_whitespace on the ASCII range: \t \n \v \f \r and space
IsWhitespace(c) == c \in {9, 10, 11, 12, 13, 32}

\* str::trim
trim(s) ==
    LET keep == {k \in 1..Len(s) : ~IsWhitespace(s[k])}
    IN  IF keep = {} THEN <<>> ELSE SubSeq(s, SetMin(keep), SetMax(keep))

\* str::split(sep), collected: always at least one piece
RECURSIVE split(_, _)
split(s, sep) ==
    LET at == {k \in 1..Len(s) : s[k] = sep}
    IN  IF at = {} THEN <<s>>
        ELSE LET p == SetMin(at)
             IN  <<SubSeq(s, 1, p - 1)>> \o split(SubSeq(s, p + 1, Len(s)), sep)

\* BufRead::lines: pieces ended by '\n' (a final "\r" of a piece dropped), and no
\* empty last piece after a final '\n'
lines(bytes) ==
    LET raw == split(bytes, 10)
        cut == IF raw[Len(raw)] = <<>> THEN SubSeq(raw, 1, Len(raw) - 1) ELSE raw
    IN  [k \in 1..Len(cut) |->
            IF cut[k] # <<>> /\ cut[k][Len(cut[k])] = 13
            THEN SubSeq(cut[k], 1, Len(cut[k]) - 1) ELSE cut[k]]

(***************************************************************************)
(* usize: 64 bits.  A value is kept as its decimal digits without leading  *)
(* zeros (zero is <<0>>), since it does not fit the model checker's        *)
(* integers.                                                               *)
(***************************************************************************)
\* usize::MAX = 18446744073709551615
USIZE_MAX ==
    <<1, 8, 4, 4, 6, 7, 4, 4, 0, 7, 3, 7, 0, 9, 5, 5, 1, 6, 1, 5>>

RECURSIVE DigitsGreater(_, _)
DigitsGreater(a, b) ==
    IF Len(a) # Len(b) THEN Len(a) > Len(b)
    ELSE IF a = <<>> THEN FALSE
    ELSE IF a[1] # b[1] THEN a[1] > b[1]
    ELSE DigitsGreater(Tail(a), Tail(b))

\* acc * 10 + d on decimal digits
MulAdd(acc, d) == IF acc = <<0>> THEN <<d>> ELSE Append(acc, d)

\* the digit loop of usize::from_str: checked_mul / checked_add at every digit
RECURSIVE FromStrRadix(_, _)
FromStrRadix(s, acc) ==
    IF s = <<>> THEN [ok |-> TRUE, value |-> acc]
    ELSE IF s[1] < 48 \/ s[1] > 57 THEN [ok |-> FALSE, kind |-> "InvalidDigit"]
    ELSE LET next == MulAdd(acc, s[1] - 48)
         IN  IF DigitsGreater(next, USIZE_MAX)
             THEN [ok |-> FALSE, kind |-> "PosOverflow"]
             ELSE FromStrRadix(Tail(s), next)

\* str::parse::<usize>: an optional '+', then at least one digit
parse_usize(s) ==
    IF s = <<>> THEN [ok |-> FALSE, kind |-> "Empty"]
    ELSE LET digits == IF s[1] = 43 THEN Tail(s) ELSE s
         IN  IF digits = <<>> THEN [ok |-> FALSE, kind |-> "InvalidDigit"]
             ELSE FromStrRadix(digits, <<0>>)

(***************************************************************************)
(* Option, Hotkey, Config, LineError, ParseError                           *)
(***************************************************************************)
None == [some |-> FALSE]

Some(v) == [some |-> TRUE, value |-> v]

Hotkey(key, modifiers) == [key |-> key, modifiers |-> modifiers]

\* Config::default() as it would be had it drifted from DEFAULT_CONFIG: the pop
\* keybinding without Shift
ConfigDefault_without_shift ==
    [max_stack_size |-> Some(<<1, 0, 0>>),
     show_tray_icon |-> TRUE,
     pop_keybinding |-> Some(Hotkey("C", {"CONTROL"})),
     clear_keybinding |-> None,
     swap_keybinding |-> None,
     prevent_duplicate_push |-> FALSE]

ConfigDefault ==
    [max_stack_size |-> Some(<<1, 0, 0>>),
     show_tray_icon |-> TRUE,
     pop_keybinding |-> Some(Hotkey("C", {"CONTROL", "SHIFT"})),
     clear_keybinding |-> None,
     swap_keybinding |-> None,
     prevent_duplicate_push |-> FALSE]

Malformed == [kind |-> "Malformed"]

UnknownOption(got) == [kind |-> "UnknownOption", got |-> got]

UnknownModifier(got) == [kind |-> "UnknownModifier", got |-> got]

UnknownKey(got) == [kind |-> "UnknownKey", got |-> got]

ExpectedBool(got) == [kind |-> "ExpectedBool", got |-> got]

ExpectedInt(err) == [kind |-> "ExpectedInt", err |-> err]

ModifierWithNoKey == [kind |-> "ModifierWithNoKey"]

ParseErrorIo == [err |-> "Io"]

ParseErrorLine(cause, index) == [err |-> "Line", cause |-> cause, index |-> index]

Ok(v) == [ok |-> TRUE, value |-> v]

Err(e) == [ok |-> FALSE, error |-> e]

(***************************************************************************)
(* win::VirtualKey and win::Modifiers text parsing, as far as config.rs    *)
(* relies on it: case-insensitive, with the tokens that the tests and      *)
(* DEFAULT_CONFIG of config.rs use, plus Alt and the key V.                *)
(***************************************************************************)
VirtualKey_from_str(s) ==
    LET l == make_ascii_lowercase(s)
    IN  CASE l = T_c -> Ok("C")
          [] l = T_v -> Ok("V")
          [] l = T_shift -> Ok("SHIFT")
          [] OTHER -> Err(UnknownKey(s))

Modifiers_from_str(s) ==
    LET l == make_ascii_lowercase(s)
    IN  CASE l = T_ctrl -> Ok({"CONTROL"})
          [] l = T_control -> Ok({"CONTROL"})
          [] l = T_shift -> Ok({"SHIFT"})
          [] l = T_alt -> Ok({"ALT"})
          [] OTHER -> Err(UnknownModifier(s))

(***************************************************************************)
(* parse_hotkey                                                            *)
(***************************************************************************)
\* the modifier loop with `modifiers = modifier` for `modifiers |= modifier`
RECURSIVE ModifierLoop_overwrite(_, _, _)
ModifierLoop_overwrite(tokens, k, modifiers) ==
    IF k = 0 THEN Ok(modifiers)
    ELSE LET modifier == Modifiers_from_str(trim(tokens[k]))
         IN  IF ~modifier.ok THEN modifier
             ELSE ModifierLoop_overwrite(tokens, k - 1, modifier.value)

\* `for modifier in tokens_iter`: the tokens before the key, last one first
RECURSIVE ModifierLoop(_, _, _)
ModifierLoop(tokens, k, modifiers) ==
    IF k = 0 THEN Ok(modifiers)
    ELSE LET modifier == Modifiers_from_str(trim(tokens[k]))
         IN  IF ~modifier.ok THEN modifier
             ELSE ModifierLoop(tokens, k - 1, modifiers \cup modifier.value)

\* parse_hotkey without the check that `none` is the only token
parse_hotkey_none_anywhere(hotkey) ==
    LET tokens == split(hotkey, 43)
        n == Len(tokens)
        raw_key == trim(tokens[n])
    IN  IF raw_key = S_none THEN Ok(None)
        ELSE LET key == VirtualKey_from_str(raw_key)
             IN  IF ~key.ok THEN key
                 ELSE LET modifiers == ModifierLoop(tokens, n - 1, {})
                      IN  IF ~modifiers.ok THEN modifiers
                          ELSE Ok(Some(Hotkey(key.value, modifiers.value)))

parse_hotkey(hotkey) ==
    LET tokens == split(hotkey, 43)
        n == Len(tokens)
        raw_key == trim(tokens[n])
    IN  IF raw_key = S_none
        THEN IF n > 1 THEN Err(ModifierWithNoKey) ELSE Ok(None)
        ELSE LET key == VirtualKey_from_str(raw_key)
             IN  IF ~key.ok THEN key
                 ELSE LET modifiers == ModifierLoop(tokens, n - 1, {})
                      IN  IF ~modifiers.ok THEN modifiers
                          ELSE Ok(Some(Hotkey(key.value, modifiers.value)))

(***************************************************************************)
(* parse_config: the body of the loop over input.lines().enumerate().      *)
(* The outcome is either `continue` with the updated Config or the         *)
(* `return Err(..)` of the function.                                       *)
(***************************************************************************)
Continue(config) == [return |-> FALSE, config |-> config]

Return(e) == [return |-> TRUE, result |-> Err(e)]

ParseMaxStackSize(config, opt_value, i) ==
    IF opt_value = S_none
    THEN Continue([config EXCEPT !.max_stack_size = None])
    ELSE LET parsed == parse_usize(opt_value)
         IN  IF parsed.ok
             THEN Continue([config EXCEPT !.max_stack_size = Some(parsed.value)])
             ELSE Return(ParseErrorLine(ExpectedInt(parsed.kind), i))

ParseBool(config, field, x, i) ==
    IF x = S_true THEN Continue([config EXCEPT ![field] = TRUE])
    ELSE IF x = S_false THEN Continue([config EXCEPT ![field] = FALSE])
    ELSE Return(ParseErrorLine(ExpectedBool(x), i))

\* a keybinding branch that stores a binding only when there is one, so that
\* `none` leaves the field as it was
ParseKeybinding_none_keeps(config, field, value, i) ==
    LET binding == parse_hotkey(value)
    IN  IF ~binding.ok THEN Return(ParseErrorLine(binding.error, i))
        ELSE IF binding.value.some THEN Continue([config EXCEPT ![field] = binding.value])
        ELSE Continue(config)

ParseKeybinding(config, field, value, i) ==
    LET binding == parse_hotkey(value)
    IN  IF binding.ok THEN Continue([config EXCEPT ![field] = binding.value])
        ELSE Return(ParseErrorLine(binding.error, i))

\* the line trimmed but not lowercased
Normalize_no_lowercase(raw) == trim(raw)

\* `line.make_ascii_lowercase(); let line = line.trim();`
Normalize(raw) == trim(make_ascii_lowercase(raw))

\* no line is skipped
IsSkipped_never(line) == FALSE

\* `if line.is_empty() { continue; }`
IsSkipped(line) == line = <<>>

\* `pieces.len() < 2` for `pieces.len() != 2`
IsMalformed_fewer_than_two(pieces) == Len(pieces) < 2

\* `if pieces.len() != 2`
IsMalformed(pieces) == Len(pieces) # 2

\* `match pieces[0].trim() { .. }` with the value `pieces[1].trim()`
MatchOption(config, name, value, i) ==
    CASE name = S_max_stack_size -> ParseMaxStackSize(config, value, i)
      [] name = S_show_tray_icon -> ParseBool(config, "show_tray_icon", value, i)
      [] name = S_prevent_duplicate_push ->
             ParseBool(config, "prevent_duplicate_push", value, i)
      [] name = S_pop_keybinding -> ParseKeybinding(config, "pop_keybinding", value, i)
      [] name = S_clear_keybinding ->
             ParseKeybinding(config, "clear_keybinding", value, i)
      [] name = S_swap_keybinding -> ParseKeybinding(config, "swap_keybinding", value, i)
      [] OTHER -> Return(ParseErrorLine(UnknownOption(name), i))

LoopBody(config, raw, i) ==
    LET line == Normalize(raw)
    IN  IF IsSkipped(line) THEN Continue(config)
        ELSE LET pieces == split(line, 61)
             IN  IF IsMalformed(pieces) THEN Return(ParseErrorLine(Malformed, i))
                 ELSE MatchOption(config, trim(pieces[1]), trim(pieces[2]), i)

\* parse_config on a stream that is read without failure
RECURSIVE ParseFrom(_, _, _)
ParseFrom(input_lines, i, config) ==
    IF i = Len(input_lines) THEN Ok(config)
    ELSE LET step == LoopBody(config, input_lines[i + 1], i)
         IN  IF step.return THEN step.result
             ELSE ParseFrom(input_lines, i + 1, step.config)

parse_config(input_lines) == ParseFrom(input_lines, 0, ConfigDefault)

(***************************************************************************)
(* Inputs.  A parse_config run reads one of: up to MaxLines lines of       *)
(* CoreLines; one line of ExtraLines; one keybinding line whose value is   *)
(* up to MaxTokens tokens of HotkeyTokens joined by '+'; or the lines of   *)
(* LongInputs.                                                             *)
(***************************************************************************)
CoreLines ==
    {L_empty, L_blank, L_stack_100, L_stack_none_mixed, L_stack_abc, L_stack_7,
     L_tray_false, L_tray_yes, L_dup_true, L_clear_ctrl_shift_c, L_pop_none,
     L_pop_alt_v, L_swap_shift_none, L_foo_bar, L_foo}

ExtraLines ==
    {X_two_eq, X_double_eq, X_no_name, X_stack_empty, X_stack_max, X_stack_over,
     X_stack_over_junk, X_stack_plus, X_stack_minus, X_stack_zeros, X_stack_None,
     X_tray_tabs, X_tray_one, X_tray_empty, X_dup_false, X_dup_none, X_name_spaces,
     X_swap_empty}

HotkeyTokens == {K_ctrl, K_Shift, K_alt, K_none, K_c, K_foo, K_empty}

KeybindingNames == {S_pop_keybinding, S_clear_keybinding, S_swap_keybinding}

SeqsUpTo(S, lo, hi) == UNION {[1..n -> S] : n \in lo..hi}

\* the tokens joined by '+'
RECURSIVE Join(_)
Join(tokens) ==
    IF Len(tokens) = 1 THEN tokens[1]
    ELSE tokens[1] \o <<43>> \o Join(Tail(tokens))

\* "<name> = <tokens joined by '+'>"
HotkeyLine(name, tokens) == name \o <<32, 61, 32>> \o Join(tokens)

HotkeyInputs ==
    {<<HotkeyLine(name, tokens)>> :
        name \in KeybindingNames, tokens \in SeqsUpTo(HotkeyTokens, 1, MaxTokens)}

\* longer inputs: the template, the inputs of the tests, and two mixtures of
\* valid, blank and invalid lines
LongInputs ==
    {lines(DEFAULT_CONFIG), lines(TEST_IGNORES_CASE), lines(TEST_IGNORES_BLANK_LINES),
     <<L_stack_7, L_blank, L_foo_bar, L_stack_abc>>,
     <<L_tray_false, L_pop_alt_v, L_empty, L_stack_100, L_pop_none, L_stack_7>>}

TextInputs ==
    SeqsUpTo(CoreLines, 0, MaxLines) \cup {<<x>> : x \in ExtraLines}
        \cup HotkeyInputs \cup LongInputs

(***************************************************************************)
(* State                                                                   *)
(***************************************************************************)
VARIABLES
    pc,            \* where the running function is
    input,         \* the items of input.lines(): the lines of the stream
    fail_at,       \* 0, or the 1-based position of the item of input.lines() that is Err
    i,             \* parse_config: the index `i` of enumerate()
    config,        \* parse_config: `config`
    parse_result,  \* what parse_config returned, once it has
    dir,           \* whether <config_dir>/ripclip exists
    file,          \* <config_dir>/ripclip/ripclip.conf on disk
    log,           \* the warn! and info! lines of load_config
    loaded,        \* what load_config returned, once it has
    last_error,    \* the calling thread's last-error code
    native_calls,  \* the native calls of the wrapper that ran last, in order
    native,        \* what the native function of that wrapper returned
    ret,           \* what that wrapper returned
    module_handle, \* the handles the caller holds: 0 until obtained
    class_atom,
    hwnd,
    received       \* how many messages get_message has delivered

parse_vars == <<pc, input, fail_at, i, config, parse_result>>

parse_vars_but_pc == <<input, fail_at, i, config, parse_result>>

load_vars == <<dir, file, log, loaded>>

win_vars ==
    <<last_error, native_calls, native, ret, module_handle, class_atom, hwnd, received>>

vars == <<parse_vars, load_vars, win_vars>>

NoResult == [pending |-> TRUE]

\* parse_config is entered: `let mut config = Config::default()`
EnterParseConfig(stream, failing) ==
    /\ input = stream
    /\ fail_at = failing
    /\ i = 0
    /\ config = ConfigDefault
    /\ parse_result = NoResult

\* a loop that goes on to the next line after a rejected one
LoopStep_goes_on(cfg, raw, idx) ==
    LET step == LoopBody(cfg, raw, idx)
    IN  [pc |-> "loop", i |-> idx + 1,
         config |-> IF step.return THEN cfg ELSE step.config, result |-> NoResult]

\* one iteration of the loop whose line was read: `continue`, fall through to the
\* next iteration, or `return Err(ParseError::Line(..))`
LoopStep(cfg, raw, idx) ==
    LET step == LoopBody(cfg, raw, idx)
    IN  IF step.return
        THEN [pc |-> "parsed", i |-> idx, config |-> cfg, result |-> step.result]
        ELSE [pc |-> "loop", i |-> idx + 1, config |-> step.config, result |-> NoResult]

ParseConfigLine ==
    /\ pc = "loop"
    /\ i < Len(input)
    /\ fail_at # i + 1
    /\ LET next == LoopStep(config, input[i + 1], i)
       IN  /\ pc' = next.pc
           /\ i' = next.i
           /\ config' = next.config
           /\ parse_result' = next.result
    /\ UNCHANGED <<input, fail_at>>

\* `let mut line = line?;` on an item that is Err(io::Error)
ParseConfigReadError ==
    /\ pc = "loop"
    /\ i < Len(input)
    /\ fail_at = i + 1
    /\ pc' = "parsed"
    /\ parse_result' = Err(ParseErrorIo)
    /\ UNCHANGED <<input, fail_at, i, config>>

\* the iterator is exhausted: `Ok(config)`
ParseConfigEnd ==
    /\ pc = "loop"
    /\ i = Len(input)
    /\ pc' = "parsed"
    /\ parse_result' = Ok(config)
    /\ UNCHANGED <<input, fail_at, i, config>>

\* the variables of load_config and of the window wrappers, when neither runs
LoadIdle ==
    /\ dir = FALSE
    /\ file = [exists |-> FALSE]
    /\ log = <<>>
    /\ loaded = NoResult

WinIdle ==
    /\ last_error = 0
    /\ native_calls = <<>>
    /\ native = NoResult
    /\ ret = NoResult
    /\ module_handle = 0
    /\ class_atom = 0
    /\ hwnd = 0
    /\ received = 0

\* parse_config called on a text held in memory, as the tests do
InitParse ==
    /\ pc = "loop"
    /\ \E text \in TextInputs : EnterParseConfig(text, 0)
    /\ LoadIdle
    /\ WinIdle

NextParse ==
    \/ ParseConfigLine /\ UNCHANGED <<load_vars, win_vars>>
    \/ ParseConfigEnd /\ UNCHANGED <<load_vars, win_vars>>

Spec == InitParse /\ [][NextParse]_vars

(***************************************************************************)
(* load_config.  The file system answers as it likes: a directory that     *)
(* cannot be resolved or created, a file that cannot be opened, created,   *)
(* written or read.                                                        *)
(***************************************************************************)
FileLines == {L_blank, L_stack_7, L_tray_yes, L_clear_ctrl_shift_c, L_foo}

FileContents == SeqsUpTo(FileLines, 0, MaxFileLines) \cup {lines(DEFAULT_CONFIG)}

OnDisk(data) == [exists |-> TRUE, data |-> data]

InitLoad ==
    /\ pc = "config_dir"
    /\ input = <<>>
    /\ fail_at = 0
    /\ i = 0
    /\ config = ConfigDefault
    /\ parse_result = NoResult
    /\ dir \in BOOLEAN
    /\ file \in {[exists |-> FALSE]} \cup {OnDisk(data) : data \in FileContents}
    /\ dir = FALSE => ~file.exists
    /\ log = <<>>
    /\ loaded = NoResult
    /\ WinIdle

\* `dirs::config_dir()` is None:
\* warn!("Unable to determine configuration directory; ..."); Ok(Config::default())
LoadNoConfigDir ==
    /\ pc = "config_dir"
    /\ pc' = "loaded"
    /\ log' = Append(log, "warn: unable to determine configuration directory")
    /\ loaded' = Ok(ConfigDefault)
    /\ UNCHANGED <<input, fail_at, i, config, parse_result, dir, file>>

\* `dirs::config_dir()` is Some(path)
LoadConfigDir ==
    /\ pc = "config_dir"
    /\ pc' = "create_dir"
    /\ UNCHANGED <<input, fail_at, i, config, parse_result, dir, file, log, loaded>>

\* `let _ = fs::create_dir(&path);` the directory is made, or it is not (it exists
\* already, or the call fails): the outcome is dropped
LoadCreateDir ==
    /\ pc = "create_dir"
    /\ pc' = "open"
    /\ dir' \in (IF dir THEN {TRUE} ELSE BOOLEAN)
    /\ UNCHANGED <<input, fail_at, i, config, parse_result, file, log, loaded>>

\* `File::open(&path)` is Ok(file): parse_config(BufReader::new(file)) is entered.
\* Any one read of the stream may fail.
LoadOpen ==
    /\ pc = "open"
    /\ dir
    /\ file.exists
    /\ pc' = "loop"
    /\ input' = file.data
    /\ \E failing \in 0..Len(file.data) : fail_at' = failing
    /\ i' = 0
    /\ config' = ConfigDefault
    /\ parse_result' = NoResult
    /\ UNCHANGED <<dir, file, log, loaded>>

\* `File::open(&path)` is Err: there is no such file, or it cannot be opened
LoadOpenFails ==
    /\ pc = "open"
    /\ pc' = "create"
    /\ UNCHANGED <<input, fail_at, i, config, parse_result, dir, file, log, loaded>>

\* `parse_config(..)?` returned Err: load_config returns it
LoadParseErr ==
    /\ pc = "parsed"
    /\ ~parse_result.ok
    /\ pc' = "loaded"
    /\ loaded' = parse_result
    /\ UNCHANGED <<input, fail_at, i, config, parse_result, dir, file, log>>

\* `parse_config(..)?` returned Ok(config): info!("Read configuration ..."); Ok(config)
LoadParseOk ==
    /\ pc = "parsed"
    /\ parse_result.ok
    /\ pc' = "loaded"
    /\ log' = Append(log, "info: read configuration")
    /\ loaded' = Ok(parse_result.value)
    /\ UNCHANGED <<input, fail_at, i, config, parse_result, dir, file>>

\* `File::create(&path)` is Ok(file): the file exists and is empty
LoadCreate ==
    /\ pc = "create"
    /\ dir
    /\ pc' = "write"
    /\ file' = OnDisk(<<>>)
    /\ UNCHANGED <<input, fail_at, i, config, parse_result, dir, log, loaded>>

\* File::create failing with its error returned to the caller
LoadCreateFails_propagates ==
    /\ pc = "create"
    /\ pc' = "loaded"
    /\ log' = log
    /\ loaded' = Err(ParseErrorIo)
    /\ UNCHANGED <<input, fail_at, i, config, parse_result, dir, file>>

\* `File::create(&path)` is Err: warn!("Unable to write default configuration ...")
LoadCreateFails ==
    /\ pc = "create"
    /\ pc' = "loaded"
    /\ log' = Append(log, "warn: unable to write default configuration")
    /\ loaded' = Ok(ConfigDefault)
    /\ UNCHANGED <<input, fail_at, i, config, parse_result, dir, file>>

\* `file.write_all(DEFAULT_CONFIG)` is Ok: info!("Wrote default configuration ...")
LoadWrite ==
    /\ pc = "write"
    /\ pc' = "loaded"
    /\ file' = OnDisk(lines(DEFAULT_CONFIG))
    /\ log' = Append(log, "info: wrote default configuration")
    /\ loaded' = Ok(ConfigDefault)
    /\ UNCHANGED <<input, fail_at, i, config, parse_result, dir>>

\* `file.write_all(DEFAULT_CONFIG)` is Err, some of the template written:
\* warn!("Unable to write default configuration ...")
LoadWriteFails ==
    /\ pc = "write"
    /\ pc' = "loaded"
    /\ \E k \in 0..(Len(lines(DEFAULT_CONFIG)) - 1) :
           file' = OnDisk(SubSeq(lines(DEFAULT_CONFIG), 1, k))
    /\ log' = Append(log, "warn: unable to write default configuration")
    /\ loaded' = Ok(ConfigDefault)
    /\ UNCHANGED <<input, fail_at, i, config, parse_result, dir>>

NextLoad ==
    \/ LoadNoConfigDir /\ UNCHANGED win_vars
    \/ LoadConfigDir /\ UNCHANGED win_vars
    \/ LoadCreateDir /\ UNCHANGED win_vars
    \/ LoadOpen /\ UNCHANGED win_vars
    \/ LoadOpenFails /\ UNCHANGED win_vars
    \/ ParseConfigLine /\ UNCHANGED <<load_vars, win_vars>>
    \/ ParseConfigReadError /\ UNCHANGED <<load_vars, win_vars>>
    \/ ParseConfigEnd /\ UNCHANGED <<load_vars, win_vars>>
    \/ LoadParseErr /\ UNCHANGED win_vars
    \/ LoadParseOk /\ UNCHANGED win_vars
    \/ LoadCreate /\ UNCHANGED win_vars
    \/ LoadCreateFails /\ UNCHANGED win_vars
    \/ LoadWrite /\ UNCHANGED win_vars
    \/ LoadWriteFails /\ UNCHANGED win_vars

SpecLoad == InitLoad /\ [][NextLoad]_vars

(***************************************************************************)
(* win.rs: the wrappers of the native calls.  The caller makes them in     *)
(* the order module handle, window class, window, clipboard listener,      *)
(* message loop, and stops at the first Err.  A native function answers    *)
(* as its documentation allows; when it fails it sets the thread's         *)
(* last-error code, and when it succeeds it may or may not reset it.       *)
(***************************************************************************)
\* raw handle values: 0 is NULL
Handles == {0, 1, 2}

\* ATOM values: 0 is the failure value of RegisterClassExW
Atoms == {0, 1}

\* last-error codes a failing call may leave: ERROR_ACCESS_DENIED,
\* ERROR_INVALID_WINDOW_HANDLE
FailureCodes == {5, 1400}

\* MSG.message: WM_QUIT, WM_HOTKEY, WM_CLIPBOARDUPDATE
MessageCodes == {18, 786, 797}

\* winapi::um::winuser::MSG as GetMessageW fills it (wParam and lParam are carried
\* over as they are)
MSG(h, code) == [hwnd |-> h, message |-> code, wParam |-> 0, lParam |-> 0]

ErrorCode(code) == [code |-> code]

\* WindowHandle::new: NonNull::new
NonNull_new(raw) == IF raw = 0 THEN None ELSE Some(raw)

\* impl From<MSG> for Message
Message_from(msg) ==
    [hwnd |-> NonNull_new(msg.hwnd), message |-> msg.message,
     w_param |-> msg.wParam, l_param |-> msg.lParam]

\* what the native function did: its return value, what it wrote through its
\* out-pointer, and the last-error code after it
NativeOutcome(fn, value, out, code) ==
    [fn |-> fn, value |-> value, out |-> out, last_error |-> code]

\* the last-error code after a native call that returned `failed`
LastErrorsAfter(failed) == IF failed THEN FailureCodes ELSE {last_error, 0}

\* get_module_handle_ex, after GetModuleHandleExW returned `result`:
\* `if result == 0 { .. GetLastError() .. return Err } Ok(NonNull::new_unchecked(..))`
get_module_handle_ex(result, handle, code) ==
    IF result = 0
    THEN [calls |-> <<"GetModuleHandleExW", "GetLastError">>, ret |-> Err(ErrorCode(code))]
    ELSE [calls |-> <<"GetModuleHandleExW">>, ret |-> Ok(handle)]

\* register_class_ex, after RegisterClassExW returned `result`
register_class_ex(result, code) ==
    IF result = 0
    THEN [calls |-> <<"RegisterClassExW", "GetLastError">>, ret |-> Err(ErrorCode(code))]
    ELSE [calls |-> <<"RegisterClassExW">>, ret |-> Ok(result)]

\* create_window_ex, after CreateWindowExW returned `handle`
create_window_ex(handle, code) ==
    IF handle = 0
    THEN [calls |-> <<"CreateWindowExW", "GetLastError">>, ret |-> Err(ErrorCode(code))]
    ELSE [calls |-> <<"CreateWindowExW">>, ret |-> Ok(handle)]

\* add_clipboard_format_listener, after AddClipboardFormatListener returned
\* `success_int`: `let success = success_int == 1`
add_clipboard_format_listener(success_int, code) ==
    IF ~(success_int = 1)
    THEN [calls |-> <<"AddClipboardFormatListener", "GetLastError">>,
          ret |-> Err(ErrorCode(code))]
    ELSE [calls |-> <<"AddClipboardFormatListener">>, ret |-> Ok(<<>>)]

\* get_message taking every result that is not positive for a failure
get_message_quit_fails(result, message, code) ==
    IF result <= 0
    THEN [calls |-> <<"GetMessageW", "GetLastError">>, ret |-> Err(ErrorCode(code))]
    ELSE [calls |-> <<"GetMessageW">>, ret |-> Ok(Message_from(message))]

\* get_message, after GetMessageW returned `result` and filled `message`
get_message(result, message, code) ==
    IF result = -1
    THEN [calls |-> <<"GetMessageW", "GetLastError">>, ret |-> Err(ErrorCode(code))]
    ELSE [calls |-> <<"GetMessageW">>, ret |-> Ok(Message_from(message))]

\* the wrapper has returned `done` after the native function did `outcome`
Returned(done, outcome) ==
    /\ native' = outcome
    /\ last_error' = outcome.last_error
    /\ native_calls' = done.calls
    /\ ret' = done.ret

InitWin ==
    /\ pc = "get_module_handle_ex"
    /\ input = <<>>
    /\ fail_at = 0
    /\ i = 0
    /\ config = ConfigDefault
    /\ parse_result = NoResult
    /\ LoadIdle
    /\ last_error \in {0} \cup FailureCodes
    /\ native_calls = <<>>
    /\ native = NoResult
    /\ ret = NoResult
    /\ module_handle = 0
    /\ class_atom = 0
    /\ hwnd = 0
    /\ received = 0

\* GetModuleHandleExW(0, NULL, &mut module_handle): nonzero and a module handle
\* stored, or 0 and NULL stored
GetModuleHandleEx ==
    /\ pc = "get_module_handle_ex"
    /\ \E result \in {0, 1}, handle \in Handles :
         /\ (result = 0) = (handle = 0)
         /\ \E code \in LastErrorsAfter(result = 0) :
              LET done == get_module_handle_ex(result, handle, code)
              IN  /\ Returned(done, NativeOutcome("GetModuleHandleExW", result, handle, code))
                  /\ module_handle' = IF done.ret.ok THEN done.ret.value ELSE 0
                  /\ pc' = IF done.ret.ok THEN "register_class_ex" ELSE "failed"
    /\ UNCHANGED <<class_atom, hwnd, received>>

\* RegisterClassExW(&options): the class atom, or 0
RegisterClassEx ==
    /\ pc = "register_class_ex"
    /\ \E result \in Atoms :
         \E code \in LastErrorsAfter(result = 0) :
            LET done == register_class_ex(result, code)
            IN  /\ Returned(done, NativeOutcome("RegisterClassExW", result, <<>>, code))
                /\ class_atom' = IF done.ret.ok THEN done.ret.value ELSE 0
                /\ pc' = IF done.ret.ok THEN "create_window_ex" ELSE "failed"
    /\ UNCHANGED <<module_handle, hwnd, received>>

\* CreateWindowExW(..): the window handle, or NULL
CreateWindowEx ==
    /\ pc = "create_window_ex"
    /\ \E handle \in Handles :
         \E code \in LastErrorsAfter(handle = 0) :
            LET done == create_window_ex(handle, code)
            IN  /\ Returned(done, NativeOutcome("CreateWindowExW", handle, <<>>, code))
                /\ hwnd' = IF done.ret.ok THEN done.ret.value ELSE 0
                /\ pc' = IF done.ret.ok THEN "add_clipboard_format_listener" ELSE "failed"
    /\ UNCHANGED <<module_handle, class_atom, received>>

\* AddClipboardFormatListener(hwnd): TRUE (1) or FALSE (0)
AddClipboardFormatListener ==
    /\ pc = "add_clipboard_format_listener"
    /\ \E success_int \in {0, 1} :
         \E code \in LastErrorsAfter(success_int = 0) :
            LET done == add_clipboard_format_listener(success_int, code)
            IN  /\ Returned(done,
                       NativeOutcome("AddClipboardFormatListener", success_int, <<>>, code))
                /\ pc' = IF done.ret.ok THEN "get_message" ELSE "failed"
    /\ UNCHANGED <<module_handle, class_atom, hwnd, received>>

\* GetMessageW(&mut message, ..): -1 and nothing stored; 0 and WM_QUIT stored; or
\* nonzero and another message stored, posted to a window or to the thread
\* (hwnd NULL).  The caller leaves its loop at WM_QUIT.
GetMessage ==
    /\ pc = "get_message"
    /\ received < MaxMessages
    /\ \E result \in {-1, 0, 1}, h \in {0, hwnd}, m \in MessageCodes :
         /\ (result = 0) = (m = 18)
         /\ result = -1 => (h = 0 /\ m = 786)
         /\ \E code \in LastErrorsAfter(result = -1) :
              LET message == IF result = -1 THEN <<>> ELSE MSG(h, m)
                  done == get_message(result, message, code)
              IN  /\ Returned(done, NativeOutcome("GetMessageW", result, message, code))
                  /\ pc' = IF ~done.ret.ok THEN "failed"
                           ELSE IF done.ret.value.message = 18 THEN "quit"
                           ELSE "get_message"
                  /\ received' = IF done.ret.ok THEN received + 1 ELSE received
    /\ UNCHANGED <<module_handle, class_atom, hwnd>>

NextWin ==
    \/ GetModuleHandleEx /\ UNCHANGED <<parse_vars_but_pc, load_vars>>
    \/ RegisterClassEx /\ UNCHANGED <<parse_vars_but_pc, load_vars>>
    \/ CreateWindowEx /\ UNCHANGED <<parse_vars_but_pc, load_vars>>
    \/ AddClipboardFormatListener /\ UNCHANGED <<parse_vars_but_pc, load_vars>>
    \/ GetMessage /\ UNCHANGED <<parse_vars_but_pc, load_vars>>

SpecWin == InitWin /\ [][NextWin]_vars

(***************************************************************************)
(* Properties                                                              *)
(***************************************************************************)
Parsed == pc = "parsed"

LineIndex(r) == r.error.index

LineCause(r) == r.error.cause

IsLineErr(r) == ~r.ok /\ r.error.err = "Line"

\* the same Config, or the same kind of error at the same line index
SameOutcome(a, b) ==
    /\ a.ok = b.ok
    /\ a.ok => a.value = b.value
    /\ ~a.ok => /\ a.error.err = b.error.err
                /\ a.error.err = "Line" =>
                       /\ LineCause(a).kind = LineCause(b).kind
                       /\ LineIndex(a) = LineIndex(b)

\* whether the line, taken alone, is rejected, and why
LineInvalid(raw) == LoopBody(ConfigDefault, raw, 0).return

CauseOf(raw) == LineCause(LoopBody(ConfigDefault, raw, 0).result)

\* the text before the only '=' of the normalized line, trimmed; <<>> when the
\* line has not exactly one '='
OptionNamed(raw) ==
    LET line == Normalize(raw)
        at == {k \in 1..Len(line) : line[k] = 61}
    IN  IF Cardinality(at) # 1 THEN <<>> ELSE trim(SubSeq(line, 1, SetMin(at) - 1))

\* the text after the only '=' of the normalized line, trimmed
ValueGiven(raw) ==
    LET line == Normalize(raw)
        at == {k \in 1..Len(line) : line[k] = 61}
    IN  IF Cardinality(at) # 1 THEN <<>>
        ELSE trim(SubSeq(line, SetMin(at) + 1, Len(line)))

OptionText ==
    [max_stack_size |-> S_max_stack_size,
     show_tray_icon |-> S_show_tray_icon,
     pop_keybinding |-> S_pop_keybinding,
     clear_keybinding |-> S_clear_keybinding,
     swap_keybinding |-> S_swap_keybinding,
     prevent_duplicate_push |-> S_prevent_duplicate_push]

Fields == DOMAIN OptionText

KeybindingFields == {"pop_keybinding", "clear_keybinding", "swap_keybinding"}

\* C1: parse_config on the lines of DEFAULT_CONFIG returns Ok(Config::default())
C1_DefaultTemplateParsesToDefault ==
    (Parsed /\ input = lines(DEFAULT_CONFIG)) => parse_result = Ok(ConfigDefault)

C1_Witness ==
    /\ Parsed
    /\ input = lines(DEFAULT_CONFIG)
    /\ Len(input) = 6
    /\ i = 6
    /\ parse_result.ok

\* ---- case variants of an input
IsAsciiLowercase(c) == c >= 97 /\ c <= 122

UpperChar(c) == IF IsAsciiLowercase(c) THEN c - 32 ELSE c

SwapChar(c) ==
    IF IsAsciiLowercase(c) THEN c - 32 ELSE IF IsAsciiUppercase(c) THEN c + 32 ELSE c

UpperLine(line) == [k \in 1..Len(line) |-> UpperChar(line[k])]

SwapLine(line) == [k \in 1..Len(line) |-> SwapChar(line[k])]

\* the line with the case of its p-th character changed
ToggleAt(line, p) == [line EXCEPT ![p] = SwapChar(line[p])]

\* every line in upper case, in lower case, with its case swapped; one line of the
\* input so changed; and, for an input of one line, one character so changed
CaseVariants(text) ==
    {[k \in 1..Len(text) |-> UpperLine(text[k])],
     [k \in 1..Len(text) |-> make_ascii_lowercase(text[k])],
     [k \in 1..Len(text) |-> SwapLine(text[k])]}
    \cup {[text EXCEPT ![k] = UpperLine(text[k])] : k \in 1..Len(text)}
    \cup {[text EXCEPT ![k] = SwapLine(text[k])] : k \in 1..Len(text)}
    \cup (IF Len(text) = 1
          THEN {<<ToggleAt(text[1], p)>> : p \in 1..Len(text[1])}
          ELSE {})

\* C2: parse_config returns the same outcome (the same Config, or the same kind of
\* error at the same line index) for an input and for every variant of it that
\* differs only in the ASCII case of letters
C2_CaseInsensitive ==
    Parsed => \A variant \in CaseVariants(input) :
                  SameOutcome(parse_config(variant), parse_result)

\* the input of test::ignores_case, and what the test asserts of it
C2_Witness ==
    /\ Parsed
    /\ input = lines(TEST_IGNORES_CASE)
    /\ parse_result.ok
    /\ parse_result.value.max_stack_size = None
    /\ parse_result.value.clear_keybinding = Some(Hotkey("C", {"CONTROL", "SHIFT"}))

\* ---- blank lines
IsBlankLine(raw) == \A k \in 1..Len(raw) : IsWhitespace(raw[k])

WithoutBlankLines(text) == SelectSeq(text, LAMBDA raw : ~IsBlankLine(raw))

BlankLinesBefore(text, n) == Cardinality({k \in 1..n : IsBlankLine(text[k])})

InsertAt(text, p, raw) == SubSeq(text, 1, p) \o <<raw>> \o SubSeq(text, p + 1, Len(text))

\* C3 as stated: blank lines change neither the Config nor, for an invalid line
\* after them, the line index of the error: the input without its blank lines has
\* the very same outcome
C3_BlankLinesDoNotCount ==
    Parsed => LET stripped == parse_config(WithoutBlankLines(input))
              IN  /\ stripped.ok = parse_result.ok
                  /\ parse_result.ok => stripped.value = parse_result.value
                  /\ IsLineErr(parse_result) =>
                         /\ LineCause(stripped) = LineCause(parse_result)
                         /\ LineIndex(stripped) = LineIndex(parse_result)

\* C3 amended: blank lines change neither the Config nor the cause of the error,
\* but they count in the line index, which is the position of the invalid line
\* among all the lines of the input: removing the blank lines lowers the index by
\* the number of blank lines before the invalid line, and inserting one blank line
\* at or before the invalid line raises it by one
C3_BlankLinesKeepPosition ==
    Parsed =>
        /\ LET stripped == parse_config(WithoutBlankLines(input))
           IN  /\ stripped.ok = parse_result.ok
               /\ parse_result.ok => stripped.value = parse_result.value
               /\ IsLineErr(parse_result) =>
                      /\ LineCause(stripped) = LineCause(parse_result)
                      /\ LineIndex(parse_result) =
                             LineIndex(stripped)
                                 + BlankLinesBefore(input, LineIndex(parse_result))
        /\ \A p \in 0..Len(input), blank \in {L_empty, L_blank} :
               LET more == parse_config(InsertAt(input, p, blank))
               IN  /\ more.ok = parse_result.ok
                   /\ parse_result.ok => more.value = parse_result.value
                   /\ IsLineErr(parse_result) =>
                          /\ LineCause(more) = LineCause(parse_result)
                          /\ LineIndex(more) =
                                 LineIndex(parse_result)
                                     + (IF p <= LineIndex(parse_result) THEN 1 ELSE 0)

\* a blank line, then an invalid line reported at index 1
C3_Witness ==
    /\ Parsed
    /\ Len(input) = 2
    /\ IsBlankLine(input[1])
    /\ IsLineErr(parse_result)
    /\ LineIndex(parse_result) = 1

RECURSIVE StripZeros(_)
StripZeros(digits) ==
    IF Len(digits) > 1 /\ digits[1] = 0 THEN StripZeros(Tail(digits)) ELSE digits

\* the decimal digits of "<digits>" or "+<digits>", without leading zeros
DigitsOf(text) ==
    LET unsigned == IF text # <<>> /\ text[1] = 43 THEN Tail(text) ELSE text
    IN  StripZeros([k \in 1..Len(unsigned) |-> unsigned[k] - 48])

\* a non-negative integer no greater than usize::MAX, in decimal
IsUsizeText(text) ==
    LET unsigned == IF text # <<>> /\ text[1] = 43 THEN Tail(text) ELSE text
    IN  /\ unsigned # <<>>
        /\ \A k \in 1..Len(unsigned) : unsigned[k] >= 48 /\ unsigned[k] <= 57
        /\ ~DigitsGreater(DigitsOf(text), USIZE_MAX)

ValueRead(field, raw) ==
    LET value == ValueGiven(raw)
    IN  CASE field = "max_stack_size" ->
                 IF value = S_none THEN None ELSE Some(DigitsOf(value))
          [] field \in {"show_tray_icon", "prevent_duplicate_push"} -> value = S_true
          [] OTHER -> parse_hotkey(value).value

LinesNaming(field) == {k \in 1..Len(input) : OptionNamed(input[k]) = OptionText[field]}

\* C9: when every line is valid, each field of the returned Config is the value of
\* the last line naming its option, or the default when no line names it; naming
\* an option twice is no error
C9_LastWriteWins ==
    (Parsed /\ \A k \in 1..Len(input) : ~LineInvalid(input[k])) =>
        /\ parse_result.ok
        /\ \A field \in Fields :
               parse_result.value[field] =
                   IF LinesNaming(field) = {} THEN ConfigDefault[field]
                   ELSE ValueRead(field, input[SetMax(LinesNaming(field))])

\* an option named by two lines that give it different values: the second wins,
\* and the other fields are the defaults
C9_Witness ==
    /\ Parsed
    /\ Len(input) = 2
    /\ LinesNaming("pop_keybinding") = {1, 2}
    /\ ValueRead("pop_keybinding", input[1]) # ValueRead("pop_keybinding", input[2])
    /\ parse_result.ok
    /\ parse_result.value =
           [ConfigDefault EXCEPT !.pop_keybinding = ValueRead("pop_keybinding", input[2])]

\* ---- the cause the claim gives for a line, from the text of the line
Valid == [kind |-> "Valid"]

Expected(raw) ==
    LET line == Normalize(raw)
        name == OptionNamed(raw)
        value == ValueGiven(raw)
    IN  IF Cardinality({k \in 1..Len(line) : line[k] = 61}) # 1 THEN Malformed
        ELSE IF name \notin {OptionText[f] : f \in Fields} THEN UnknownOption(name)
        ELSE IF name = S_max_stack_size
             THEN IF value = S_none \/ IsUsizeText(value) THEN Valid
                  ELSE [kind |-> "ExpectedInt"]
        ELSE IF name \in {S_show_tray_icon, S_prevent_duplicate_push}
             THEN IF value \in {S_true, S_false} THEN Valid ELSE ExpectedBool(value)
        ELSE IF parse_hotkey(value).ok THEN Valid ELSE parse_hotkey(value).error

Matches(cause, expected) ==
    IF expected.kind = "ExpectedInt" THEN cause.kind = "ExpectedInt"
    ELSE cause = expected

\* the lines the loop reached: all of them, or those up to the rejected one
Examined ==
    IF parse_result.ok THEN 1..Len(input) ELSE 1..(LineIndex(parse_result) + 1)

\* C10: a non-blank line is Malformed unless it has exactly one '='; else it is
\* UnknownOption(name) unless the name is one of the six; else its cause depends
\* on its value alone (ExpectedInt, ExpectedBool(value), or the error of
\* parse_hotkey); and the error carries the index of that line
C10_ErrorClassification ==
    Parsed =>
        \A k \in Examined :
            ~IsBlankLine(input[k]) =>
                IF ~parse_result.ok /\ k = LineIndex(parse_result) + 1
                THEN Matches(LineCause(parse_result), Expected(input[k]))
                ELSE Expected(input[k]) = Valid

\* a recognized option name on a line with two '=': Malformed
C10_Witness ==
    /\ Parsed
    /\ input = <<X_double_eq>>
    /\ trim(split(Normalize(input[1]), 61)[1]) = S_show_tray_icon
    /\ parse_result = Err(ParseErrorLine(Malformed, 0))

\* ---- hotkey expressions
KeybindingLines == {k \in Examined : OptionNamed(input[k]) \in KeybindingNames}

FieldOf(raw) == CHOOSE f \in Fields : OptionText[f] = OptionNamed(raw)

TokensOf(raw) == split(ValueGiven(raw), 43)

LastToken(raw) == trim(TokensOf(raw)[Len(TokensOf(raw))])

VirtualKeys == {"C", "V", "SHIFT"}

\* C6: a hotkey expression whose last token, trimmed, is `none` is Ok(None) when
\* that is its only token and Err(ModifierWithNoKey) when any token precedes it;
\* a keybinding of the Config is None or has a real key
C6_NoneSentinel ==
    /\ \A f \in KeybindingFields : config[f].some => config[f].value.key \in VirtualKeys
    /\ Parsed =>
           \A k \in KeybindingLines :
               LastToken(input[k]) = S_none =>
                   IF Len(TokensOf(input[k])) = 1
                   THEN /\ parse_hotkey(ValueGiven(input[k])) = Ok(None)
                        /\ ~parse_result.ok => LineIndex(parse_result) # k - 1
                        /\ (parse_result.ok /\ k = SetMax(LinesNaming(FieldOf(input[k]))))
                               => parse_result.value[FieldOf(input[k])] = None
                   ELSE /\ parse_hotkey(ValueGiven(input[k])) = Err(ModifierWithNoKey)
                        /\ parse_result = Err(ParseErrorLine(ModifierWithNoKey, k - 1))

\* `foo + none`: a token that is no modifier before `none`
C6_Witness ==
    /\ Parsed
    /\ input = <<HotkeyLine(S_swap_keybinding, <<K_foo, K_none>>)>>
    /\ ~Modifiers_from_str(trim(TokensOf(input[1])[1])).ok
    /\ parse_result = Err(ParseErrorLine(ModifierWithNoKey, 0))

ValidCombination(tokens) ==
    LET n == Len(tokens)
    IN  /\ trim(tokens[n]) # S_none
        /\ VirtualKey_from_str(trim(tokens[n])).ok
        /\ \A k \in 1..(n - 1) : Modifiers_from_str(trim(tokens[k])).ok

UnionOfModifiers(tokens) ==
    UNION {Modifiers_from_str(trim(tokens[k])).value : k \in 1..(Len(tokens) - 1)}

Orderings(m) == {p \in [1..m -> 1..m] : \A a, b \in 1..m : a # b => p[a] # p[b]}

\* the modifier tokens in another order, or with one of them given twice
Rearranged(tokens) ==
    LET m == Len(tokens) - 1
    IN  {[k \in 1..(m + 1) |-> IF k <= m THEN tokens[p[k]] ELSE tokens[k]] :
            p \in Orderings(m)}
        \cup {<<tokens[k]>> \o tokens : k \in 1..m}

\* C7: modifiers and then a key give Some(Hotkey) with that key and the union of
\* the modifiers, whatever the order of the modifier tokens and however often one
\* is repeated; with no modifier token the set is empty
C7_ModifierUnion ==
    Parsed =>
        \A k \in KeybindingLines :
            LET tokens == TokensOf(input[k])
                expected ==
                    Ok(Some(Hotkey(VirtualKey_from_str(trim(tokens[Len(tokens)])).value,
                                   UnionOfModifiers(tokens))))
            IN  ValidCombination(tokens) =>
                    /\ parse_hotkey(ValueGiven(input[k])) = expected
                    /\ \A other \in Rearranged(tokens) : parse_hotkey(Join(other)) = expected
                    /\ Len(tokens) = 1 => expected.value.value.modifiers = {}
                    /\ ~parse_result.ok => LineIndex(parse_result) # k - 1
                    /\ (parse_result.ok /\ k = SetMax(LinesNaming(FieldOf(input[k]))))
                           => parse_result.value[FieldOf(input[k])] = expected.value

\* `shift + ctrl + c`, the modifiers of the test in the other order
C7_Witness ==
    /\ Parsed
    /\ input = <<HotkeyLine(S_clear_keybinding, <<K_Shift, K_ctrl, K_c>>)>>
    /\ parse_result.ok
    /\ parse_result.value.clear_keybinding = Some(Hotkey("C", {"CONTROL", "SHIFT"}))

\* ---- load_config
Loaded == pc = "loaded"

\* File::open succeeded: parse_config ran
Opened == parse_result # NoResult

\* C5 as stated: load_config returns Ok(Config::default()) after any failure to
\* resolve, create, open, read or write; it returns Err only for an opened file
\* with an invalid line, and then the error of parse_config
C5_OnlyInvalidLinesFail ==
    Loaded =>
        /\ ~Opened => loaded = Ok(ConfigDefault)
        /\ ~loaded.ok => (Opened /\ IsLineErr(parse_result) /\ loaded = parse_result)

\* C5 amended: load_config returns Ok(Config::default()) whenever the file is not
\* opened (no configuration directory, or File::open fails, whatever create_dir,
\* File::create and write_all do); once the file is opened it returns what
\* parse_config returns: the parsed Config, the error of the first invalid line,
\* or ParseError::Io for a read that fails before any invalid line
C5_OpenedFileDecides ==
    Loaded =>
        /\ ~Opened => loaded = Ok(ConfigDefault)
        /\ Opened => loaded = parse_result
        /\ ~loaded.ok =>
               /\ Opened
               /\ \/ IsLineErr(parse_result) /\ LineInvalid(input[LineIndex(parse_result) + 1])
                  \/ parse_result = Err(ParseErrorIo) /\ fail_at = i + 1

\* a read of the opened file fails: load_config returns ParseError::Io
C5_Witness ==
    /\ Loaded
    /\ file.exists
    /\ fail_at > 0
    /\ loaded = Err(ParseErrorIo)

\* ---- the native wrappers
\* the failure value of each native function, from its documentation
NativeFailed(outcome) ==
    IF outcome.fn = "GetMessageW" THEN outcome.value = -1 ELSE outcome.value = 0

\* C8: a wrapper returns Err exactly when its native function returned its failure
\* value, with the last-error code that call left and GetLastError the only native
\* call after it; an Ok handle or class atom is not zero; GetMessageW returning 0
\* (WM_QUIT) is an Ok(Message)
C8_WrapperFailureContract ==
    native # NoResult =>
        /\ ret.ok = ~NativeFailed(native)
        /\ ~ret.ok => /\ ret.error = ErrorCode(native.last_error)
                      /\ ret.error = ErrorCode(last_error)
                      /\ native_calls = <<native.fn, "GetLastError">>
        /\ ret.ok => native_calls = <<native.fn>>
        /\ (ret.ok /\ native.fn \in {"GetModuleHandleExW", "RegisterClassExW",
                                     "CreateWindowExW"}) => ret.value # 0
        /\ (native.fn = "GetMessageW" /\ native.value = 0) =>
               (ret.ok /\ ret.value.message = 18)
        /\ pc \in {"register_class_ex", "create_window_ex",
                   "add_clipboard_format_listener", "get_message", "quit"}
               => module_handle # 0
        /\ pc \in {"add_clipboard_format_listener", "get_message", "quit"}
               => (class_atom # 0 /\ hwnd # 0)

\* the quit signal is delivered as a message, after an earlier call left a
\* last-error code behind
C8_Witness ==
    /\ pc = "quit"
    /\ native.fn = "GetMessageW"
    /\ native.value = 0
    /\ ret = Ok([hwnd |-> None, message |-> 18, w_param |-> 0, l_param |-> 0])
    /\ last_error # 0
====
